---- MODULE Spec2Model ----
(***************************************************************************)
(* Model of dem's mutation engine (src/mutations.ts): mutateStore, the     *)
(* synchronous manifest mutator, and mutateRepository, the asynchronous    *)
(* replay of the same actions against the persistence and export           *)
(* inspection collaborators.                                               *)
(*                                                                         *)
(* JavaScript objects are modelled as a heap of mutable cells addressed by *)
(* references, because the code pushes the Module object carried by an     *)
(* ADD_MODULE action into the working module list by reference.  Strings   *)
(* are sequences of one-character strings so that startsWith and split     *)
(* compute what the JavaScript built-ins compute.                          *)
(***************************************************************************)
EXTENDS Naturals, Sequences, FiniteSets

VARIABLES
  heap,      \* the JavaScript heap: cfgs, lists, mods, files, maps
  store,     \* reference of the caller's input Store (its config)
  actions,   \* the action batch handed to both phases
  input0,    \* deep value of the input manifest taken before the first call
  actions0,  \* deep value of the batch taken before the first call
  outcomes,  \* one record per finished mutateStore call
  rpc,       \* mutateRepository: "idle", "running", "resolved" or "rejected"
  rstore,    \* mutateRepository: reference of the Store it was called with
  rpos,      \* mutateRepository: [i, k, stage], the await it is suspended at
  calls,     \* log of collaborator calls, in the order they were started
  pending,   \* indices into calls of the calls that have not settled
  rerr       \* the error mutateRepository rejected with

vars == <<heap, store, actions, input0, actions0, outcomes,
          rpc, rstore, rpos, calls, pending, rerr>>

(***************************************************************************)
(* Bounds                                                                  *)
(***************************************************************************)
MaxBatch == 2     \* longest action batch
MaxRuns == 2      \* mutateStore calls made with the same manifest and batch

(***************************************************************************)
(* Strings                                                                 *)
(***************************************************************************)
\* UTF-16 code units of the characters used
CharCode(c) ==
  CASE c = "/" -> 47 [] c = "1" -> 49 [] c = "2" -> 50 [] c = ":" -> 58
    [] c = "@" -> 64 [] c = "a" -> 97 [] c = "b" -> 98 [] c = "f" -> 102
    [] c = "g" -> 103 [] c = "p" -> 112 [] c = "v" -> 118
    [] c = "x" -> 120 [] c = "y" -> 121 [] c = "O" -> 79 [] c = "e" -> 101
    [] c = "l" -> 108 [] c = "u" -> 117

\* s < t in the order Array.prototype.sort uses without a comparator
RECURSIVE StrLess(_, _)
StrLess(s, t) ==
  IF s = <<>> THEN t # <<>>
  ELSE IF t = <<>> THEN FALSE
  ELSE IF Head(s) = Head(t) THEN StrLess(Tail(s), Tail(t))
  ELSE CharCode(Head(s)) < CharCode(Head(t))

\* String.prototype.startsWith
startsWith(s, p) == Len(p) <= Len(s) /\ SubSeq(s, 1, Len(p)) = p

\* String.prototype.indexOf, 1-based; 0 when sep does not occur
indexOf(s, sep) ==
  LET hits == {i \in 1..Len(s) : i + Len(sep) - 1 <= Len(s)
                                 /\ SubSeq(s, i, i + Len(sep) - 1) = sep}
  IN IF hits = {} THEN 0 ELSE CHOOSE i \in hits : \A j \in hits : i <= j

\* String.prototype.split with a non-empty separator
RECURSIVE split(_, _)
split(s, sep) ==
  LET i == indexOf(s, sep)
  IN IF i = 0 THEN <<s>>
     ELSE <<SubSeq(s, 1, i - 1)>> \o split(SubSeq(s, i + Len(sep), Len(s)), sep)

\* Array.prototype.sort: a stable sort by the strict order Less
sort(s, Less(_, _)) ==
  LET rank(i) == Cardinality({j \in 1..Len(s) :
                     Less(s[j], s[i]) \/ (~Less(s[i], s[j]) /\ j < i)}) + 1
  IN [r \in 1..Len(s) |-> s[CHOOSE i \in 1..Len(s) : rank(i) = r]]

\* index of the first element satisfying P, 0 when there is none
FirstIndex(s, P(_)) ==
  LET hits == {i \in 1..Len(s) : P(s[i])}
  IN IF hits = {} THEN 0 ELSE CHOOSE i \in hits : \A j \in hits : i <= j

\* Array.prototype.splice(i, 1)
RemoveAt(s, i) == SubSeq(s, 1, i - 1) \o SubSeq(s, i + 1, Len(s))

(***************************************************************************)
(* Module (module.ts)                                                      *)
(***************************************************************************)
\* Module.toString(): the identity string protocol://path
toString(mod) == mod.protocol \o <<":", "/", "/">> \o mod.path

moduleEquals(a, b) == a.protocol = b.protocol /\ a.path = b.path

\* compareModules(a, b) < 0
compareModules(a, b) ==
  \/ StrLess(a.protocol, b.protocol)
  \/ a.protocol = b.protocol /\ StrLess(a.path, b.path)

\* createURL (net.ts)
createURL(protocol, path, version, filePath) ==
  protocol \o <<":", "/", "/">> \o path \o <<"@">> \o version \o filePath

(***************************************************************************)
(* Actions (actions.ts)                                                    *)
(***************************************************************************)
ADD_MODULE == "ADD_MODULE"
REMOVE_MODULE == "REMOVE_MODULE"
ADD_LINK == "ADD_LINK"
REMOVE_LINK == "REMOVE_LINK"
ADD_ALIAS == "ADD_ALIAS"
REMOVE_ALIAS == "REMOVE_ALIAS"
UPDATE_MODULE == "UPDATE_MODULE"

\* the payload of ADD_MODULE is a reference to a Module object
AddModule(m) == [type |-> ADD_MODULE, module |-> m]
RemoveModule(p, q) == [type |-> REMOVE_MODULE, moduleProtocol |-> p, modulePath |-> q]
AddLink(l) == [type |-> ADD_LINK, link |-> l]
RemoveLink(l) == [type |-> REMOVE_LINK, link |-> l]
AddAlias(a, t) == [type |-> ADD_ALIAS, aliasPath |-> a, aliasTargetPath |-> t]
RemoveAlias(a) == [type |-> REMOVE_ALIAS, aliasPath |-> a]
UpdateModule(p, q, v) ==
  [type |-> UPDATE_MODULE, moduleProtocol |-> p, modulePath |-> q, moduleVersion |-> v]

(***************************************************************************)
(* Heap                                                                    *)
(***************************************************************************)
\* cfgs:  Store/config objects [modules |-> list ref, aliases |-> map ref]
\* lists: module arrays, sequences of module refs
\* mods:  Module objects [protocol, path, version, files |-> file array ref]
\* files: file arrays, sequences of strings
\* maps:  alias objects, sequences of <<key, value>> in property order
EmptyHeap == [cfgs |-> <<>>, lists |-> <<>>, mods |-> <<>>, files |-> <<>>, maps |-> <<>>]

ModValue(h, m) ==
  [protocol |-> h.mods[m].protocol, path |-> h.mods[m].path,
   version |-> h.mods[m].version, files |-> h.files[h.mods[m].files]]

\* deep value of a manifest
StoreValue(h, s) ==
  LET list == h.lists[h.cfgs[s].modules]
  IN [modules |-> [i \in 1..Len(list) |-> ModValue(h, list[i])],
      aliases |-> h.maps[h.cfgs[s].aliases]]

\* deep value of an action
ActionValue(h, a) ==
  IF a.type = ADD_MODULE THEN [type |-> ADD_MODULE, module |-> ModValue(h, a.module)]
  ELSE a

\* allocate Module objects (with their file arrays) for the values in ms
AllocModules(h, ms) ==
  [h EXCEPT
     !.files = @ \o [i \in 1..Len(ms) |-> ms[i].files],
     !.mods = @ \o [i \in 1..Len(ms) |->
                 [protocol |-> ms[i].protocol, path |-> ms[i].path,
                  version |-> ms[i].version, files |-> Len(h.files) + i]]]

\* allocate a Store whose config holds fresh copies of the values in m
AllocStore(h, m) ==
  LET h1 == AllocModules(h, m.modules)
  IN [h1 EXCEPT
        !.lists = Append(@, [i \in 1..Len(m.modules) |-> Len(h.mods) + i]),
        !.maps = Append(@, m.aliases),
        !.cfgs = Append(@, [modules |-> Len(h.lists) + 1, aliases |-> Len(h.maps) + 1])]

\* duplicateStore (store.ts): a structural copy, nothing shared with the source
duplicateStore(h, s) ==
  [h |-> AllocStore(h, StoreValue(h, s)), s |-> Len(h.cfgs) + 1]

\* a property name every object literal inherits from Object.prototype
ObjectPrototype == {<<"v", "a", "l", "u", "e", "O", "f">>}

\* what an inherited property evaluates to: a function, which is truthy
Inherited == <<"function">>

\* aliases[key]: the own property, else the property inherited from
\* Object.prototype, else undefined, for which <<>> stands
MapGet(map, key) ==
  LET i == FirstIndex(map, LAMBDA e : e[1] = key)
  IN IF i # 0 THEN map[i][2]
     ELSE IF key \in ObjectPrototype THEN Inherited
     ELSE <<>>

\* aliases[key] = value
MapSet(map, key, value) ==
  LET i == FirstIndex(map, LAMBDA e : e[1] = key)
  IN IF i = 0 THEN Append(map, <<key, value>>) ELSE [map EXCEPT ![i] = <<key, value>>]

\* delete aliases[key]
MapDelete(map, key) ==
  LET i == FirstIndex(map, LAMBDA e : e[1] = key)
  IN IF i = 0 THEN map ELSE RemoveAt(map, i)

(***************************************************************************)
(* mutateStore                                                             *)
(***************************************************************************)
NoError == [kind |-> "none", subject |-> <<>>]
Error(kind, subject) == [kind |-> kind, subject |-> subject]

\* `${moduleProtocol}://${modulePath}`
urlStr(moduleProtocol, modulePath) == moduleProtocol \o <<":", "/", "/">> \o modulePath

\* variant of findOwner: the module with the longest matching identity
findOwner_longest(h, list, probe) ==
  LET ms == {j \in 1..Len(list) : startsWith(probe, toString(h.mods[list[j]]))}
  IN IF ms = {} THEN 0
     ELSE CHOOSE j \in ms :
            \A k \in ms : /\ Len(toString(h.mods[list[j]])) >= Len(toString(h.mods[list[k]]))
                          /\ Len(toString(h.mods[list[j]])) = Len(toString(h.mods[list[k]]))
                               => j <= k

\* modules.find(mod => probe.startsWith(mod.toString())), as an index; 0 = undefined
findOwner(h, list, probe) ==
  FirstIndex(list, LAMBDA m : startsWith(probe, toString(h.mods[m])))

\* modules.find(mod => mod.protocol === p && mod.path === q), as an index
findExact(h, list, p, q) ==
  FirstIndex(list, LAMBDA m : h.mods[m].protocol = p /\ h.mods[m].path = q)

\* link.split(foundMod.toString())[1]
filePathOf(link, mod) == split(link, toString(mod))[2]

\* case ADD_MODULE
storeAddModule(h, ml, a) ==
  LET list == h.lists[ml]
  IN IF \E i \in 1..Len(list) : moduleEquals(h.mods[list[i]], h.mods[a.module])
     THEN [h |-> h, err |-> Error("module already exists", toString(h.mods[a.module])),
           own |-> 0, fp |-> <<>>]
     ELSE [h |-> [h EXCEPT !.lists[ml] = Append(@, a.module)], err |-> NoError,
           own |-> 0, fp |-> <<>>]

\* variant of storeRemoveModule: every module the probe matches is removed
storeRemoveModule_all(h, ml, a) ==
  LET list == h.lists[ml]
      url == urlStr(a.moduleProtocol, a.modulePath)
      foundModIndex == findOwner(h, list, url)
  IN IF foundModIndex = 0
     THEN [h |-> h, err |-> Error("remove module: module not found", url),
           own |-> 0, fp |-> <<>>]
     ELSE [h |-> [h EXCEPT !.lists[ml] =
                     SelectSeq(@, LAMBDA m : ~startsWith(url, toString(h.mods[m])))],
           err |-> NoError, own |-> foundModIndex, fp |-> <<>>]

\* case REMOVE_MODULE
storeRemoveModule(h, ml, a) ==
  LET list == h.lists[ml]
      url == urlStr(a.moduleProtocol, a.modulePath)
      foundModIndex == findOwner(h, list, url)
  IN IF foundModIndex = 0
     THEN [h |-> h, err |-> Error("remove module: module not found", url),
           own |-> 0, fp |-> <<>>]
     ELSE [h |-> [h EXCEPT !.lists[ml] = RemoveAt(@, foundModIndex)], err |-> NoError,
           own |-> foundModIndex, fp |-> <<>>]

\* variant of storeAddLink: the file path is pushed without the includes test
storeAddLink_always(h, ml, a) ==
  LET list == h.lists[ml]
      found == findOwner(h, list, a.link)
      foundMod == h.mods[list[found]]
      filePath == filePathOf(a.link, foundMod)
  IN IF found = 0
     THEN [h |-> h, err |-> Error("add link: module not found", a.link),
           own |-> 0, fp |-> <<>>]
     ELSE [h |-> [h EXCEPT !.files[foundMod.files] = Append(@, filePath)], err |-> NoError,
           own |-> found, fp |-> filePath]

\* case ADD_LINK
storeAddLink(h, ml, a) ==
  LET list == h.lists[ml]
      found == findOwner(h, list, a.link)
      foundMod == h.mods[list[found]]
      filePath == filePathOf(a.link, foundMod)
  IN IF found = 0
     THEN [h |-> h, err |-> Error("add link: module not found", a.link),
           own |-> 0, fp |-> <<>>]
     ELSE IF \E i \in 1..Len(h.files[foundMod.files]) : h.files[foundMod.files][i] = filePath
     THEN [h |-> h, err |-> NoError, own |-> found, fp |-> filePath]
     ELSE [h |-> [h EXCEPT !.files[foundMod.files] = Append(@, filePath)], err |-> NoError,
           own |-> found, fp |-> filePath]

\* variant of storeRemoveLink: a file that is not linked is passed over
storeRemoveLink_lenient(h, ml, a) ==
  LET list == h.lists[ml]
      found == findOwner(h, list, a.link)
      foundMod == h.mods[list[found]]
      filePath == filePathOf(a.link, foundMod)
      foundFileIndex == FirstIndex(h.files[foundMod.files], LAMBDA f : f = filePath)
  IN IF found = 0
     THEN [h |-> h, err |-> Error("remove link: module not found", a.link),
           own |-> 0, fp |-> <<>>]
     ELSE IF foundFileIndex = 0
     THEN [h |-> h, err |-> NoError, own |-> found, fp |-> filePath]
     ELSE [h |-> [h EXCEPT !.files[foundMod.files] = RemoveAt(@, foundFileIndex)],
           err |-> NoError, own |-> found, fp |-> filePath]

\* case REMOVE_LINK
storeRemoveLink(h, ml, a) ==
  LET list == h.lists[ml]
      found == findOwner(h, list, a.link)
      foundMod == h.mods[list[found]]
      filePath == filePathOf(a.link, foundMod)
      foundFileIndex == FirstIndex(h.files[foundMod.files], LAMBDA f : f = filePath)
  IN IF found = 0
     THEN [h |-> h, err |-> Error("remove link: module not found", a.link),
           own |-> 0, fp |-> <<>>]
     ELSE IF foundFileIndex = 0
     THEN [h |-> h, err |-> Error("file not linked", a.link), own |-> found, fp |-> filePath]
     ELSE [h |-> [h EXCEPT !.files[foundMod.files] = RemoveAt(@, foundFileIndex)],
           err |-> NoError, own |-> found, fp |-> filePath]

\* case ADD_ALIAS; aliases[aliasPath] is truthy for a non-empty string and for
\* a property inherited from Object.prototype
storeAddAlias(h, ml, am, a) ==
  IF MapGet(h.maps[am], a.aliasPath) # <<>>
  THEN [h |-> h, err |-> Error("alias already exists", a.aliasPath), own |-> 0, fp |-> <<>>]
  ELSE IF findOwner(h, h.lists[ml], a.aliasTargetPath) = 0
  THEN [h |-> h, err |-> Error("add alias: module not found", a.aliasTargetPath),
        own |-> 0, fp |-> <<>>]
  ELSE [h |-> [h EXCEPT !.maps[am] = MapSet(@, a.aliasPath, a.aliasTargetPath)],
        err |-> NoError, own |-> findOwner(h, h.lists[ml], a.aliasTargetPath), fp |-> <<>>]

\* case REMOVE_ALIAS
storeRemoveAlias(h, am, a) ==
  IF MapGet(h.maps[am], a.aliasPath) = <<>>
  THEN [h |-> h, err |-> Error("alias does not exist", a.aliasPath), own |-> 0, fp |-> <<>>]
  ELSE [h |-> [h EXCEPT !.maps[am] = MapDelete(@, a.aliasPath)], err |-> NoError,
        own |-> 0, fp |-> <<>>]

\* case UPDATE_MODULE
storeUpdateModule(h, ml, a) ==
  LET list == h.lists[ml]
      found == findExact(h, list, a.moduleProtocol, a.modulePath)
  IN IF found = 0
     THEN [h |-> h, err |-> Error("update module: module not found",
                                   urlStr(a.moduleProtocol, a.modulePath)),
           own |-> 0, fp |-> <<>>]
     ELSE [h |-> [h EXCEPT !.mods[list[found]].version = a.moduleVersion],
           err |-> NoError, own |-> found, fp |-> <<>>]

\* the switch of the action loop
storeAction(h, ml, am, a) ==
  CASE a.type = ADD_MODULE -> storeAddModule(h, ml, a)
    [] a.type = REMOVE_MODULE -> storeRemoveModule(h, ml, a)
    [] a.type = ADD_LINK -> storeAddLink(h, ml, a)
    [] a.type = REMOVE_LINK -> storeRemoveLink(h, ml, a)
    [] a.type = ADD_ALIAS -> storeAddAlias(h, ml, am, a)
    [] a.type = REMOVE_ALIAS -> storeRemoveAlias(h, am, a)
    [] a.type = UPDATE_MODULE -> storeUpdateModule(h, ml, a)

\* what one action of the loop saw and resolved: the working module list
\* (as Module values) and the alias map before and after it, the index in the
\* list of the module it found (0: none), the file path it derived and its
\* outcome
Step(h, ml, am, r) ==
  [before |-> [j \in 1..Len(h.lists[ml]) |-> ModValue(h, h.lists[ml][j])],
   aliases |-> h.maps[am],
   after |-> [j \in 1..Len(r.h.lists[ml]) |-> ModValue(r.h, r.h.lists[ml][j])],
   aliasesAfter |-> r.h.maps[am],
   own |-> r.own, fp |-> r.fp, err |-> r.err]

RECURSIVE storeLoop(_, _, _, _, _, _)

\* variant of storeNext: an action that throws is passed over
storeNext_skip(r, ml, am, acts, i, tr) ==
  storeLoop(r.h, ml, am, acts, i + 1, tr)

\* after action i: its throw leaves the loop, otherwise the next action runs
storeNext(r, ml, am, acts, i, tr) ==
  IF r.err # NoError THEN [h |-> r.h, err |-> r.err, at |-> i, trace |-> tr]
  ELSE storeLoop(r.h, ml, am, acts, i + 1, tr)

\* the action i applied to heap h, its step appended to the trace
storeStep(r, h, ml, am, acts, i, tr) ==
  storeNext(r, ml, am, acts, i, Append(tr, Step(h, ml, am, r)))

\* for (const action of actions): stops at the first throw, at index `at`
storeLoop(h, ml, am, acts, i, tr) ==
  IF i > Len(acts) THEN [h |-> h, err |-> NoError, at |-> 0, trace |-> tr]
  ELSE storeStep(storeAction(h, ml, am, acts[i]), h, ml, am, acts, i, tr)

\* variant of sortModules: the module list is left in insertion order
sortModules_skipped(h, ml) == h

\* modules.sort(compareModules)
sortModules(h, ml) ==
  [h EXCEPT !.lists[ml] = sort(@, LAMBDA a, b : compareModules(h.mods[a], h.mods[b]))]

\* for (const mod of modules) mod.files.sort()
sortFiles(h, ml) ==
  LET owned == {h.mods[h.lists[ml][i]].files : i \in 1..Len(h.lists[ml])}
  IN [h EXCEPT !.files = [f \in 1..Len(h.files) |->
                            IF f \in owned THEN sort(h.files[f], StrLess) ELSE h.files[f]]]

\* Object.entries(aliases) sorted by key with localeCompare, which orders the
\* lower-case letters used for alias paths as StrLess does
sortAliases(map) == sort(map, LAMBDA a, b : StrLess(a[1], b[1]))

\* variant of workingStore: the loop works on the caller's Store itself
workingStore_shared(h, s) == [h |-> h, s |-> s]

\* const s = duplicateStore(store)
workingStore(h, s) == duplicateStore(h, s)

\* s.config.aliases = Object.fromEntries(aliasesEntries); return s
storeReturn(h, s, am, tr) ==
  [h |-> [h EXCEPT !.maps = Append(@, sortAliases(h.maps[am])),
                   !.cfgs[s].aliases = Len(h.maps) + 1],
   err |-> NoError, at |-> 0, ret |-> s, trace |-> tr]

\* the code after the action loop, not reached when the loop threw
storePostPass(r, s, ml, am) ==
  IF r.err # NoError
  THEN [h |-> r.h, err |-> r.err, at |-> r.at, ret |-> 0, trace |-> r.trace]
  ELSE storeReturn(sortFiles(sortModules(r.h, ml), ml), s, am, r.trace)

\* const { modules } = s.config; const aliases = { ...s.config.aliases }
\* and the rest of the function, on the working Store s of heap h
storeBody(h, s, acts) ==
  storePostPass(
    storeLoop([h EXCEPT !.maps = Append(@, h.maps[h.cfgs[s].aliases])],
              h.cfgs[s].modules, Len(h.maps) + 1, acts, 1, <<>>),
    s, h.cfgs[s].modules, Len(h.maps) + 1)

storeOn(d, acts) == storeBody(d.h, d.s, acts)

\* mutateStore(store, actions): the heap after the call, the error thrown (or
\* NoError), the index of the throwing action and the returned Store
mutateStore(h0, s0, acts) == storeOn(workingStore(h0, s0), acts)

(***************************************************************************)
(* Inputs                                                                  *)
(***************************************************************************)
P == <<"p">>
PathA == <<"a">>
PathAB == <<"a", "/", "b">>
V1 == <<"v", "1">>
V2 == <<"v", "2">>
LinkF == <<"p", ":", "/", "/", "a", "/", "b", "/", "f">>
LinkG == <<"p", ":", "/", "/", "a", "/", "g">>
AliasX == <<"x">>
AliasY == <<"y">>
\* a link in which the identity p://a occurs a second time
LinkTwice == <<"p", ":", "/", "/", "a", "/", "p", ":", "/", "/", "a">>
\* an alias path that is the name of a property of Object.prototype
AliasValueOf == <<"v", "a", "l", "u", "e", "O", "f">>

Mod(path, files) == [protocol |-> P, path |-> path, version |-> V1, files |-> files]

\* the Module objects carried by the ADD_MODULE actions, at references 1 and 2
PayloadModules == <<Mod(PathA, <<>>), Mod(PathAB, << <<"/", "f">> >>)>>

FilesA == {<<>>, << <<"/", "b", "/", "f">>, <<"/", "g">> >>}
FilesAB == {<<>>, << <<"/", "f">> >>}

\* manifests as mutateStore leaves them: modules and files sorted, identities
\* unique, every alias target owned by a module
ModuleLists ==
  {<<>>} \cup {<<Mod(PathA, fa)>> : fa \in FilesA}
         \cup {<<Mod(PathAB, fb)>> : fb \in FilesAB}
         \cup {<<Mod(PathA, fa), Mod(PathAB, fb)>> : fa \in FilesA, fb \in FilesAB}

Manifests ==
  {[modules |-> ms, aliases |-> al] :
     ms \in ModuleLists, al \in {<<>>, << <<AliasX, LinkF>> >>}}
  \ {[modules |-> <<>>, aliases |-> << <<AliasX, LinkF>> >>]}

ActionUniverse ==
  {AddModule(1), AddModule(2),
   RemoveModule(P, PathA), RemoveModule(P, PathAB),
   AddLink(LinkF), AddLink(LinkG), RemoveLink(LinkF),
   AddLink(LinkTwice),
   AddAlias(AliasX, LinkF), AddAlias(AliasY, LinkG), RemoveAlias(AliasX),
   AddAlias(AliasValueOf, LinkF),
   UpdateModule(P, PathA, V2)}

Batches == UNION {[1..n -> ActionUniverse] : n \in 0..MaxBatch}

(***************************************************************************)
(* The caller                                                              *)
(***************************************************************************)
NoPos == [i |-> 0, k |-> 0, stage |-> "none"]

Init ==
  \E m \in Manifests, b \in Batches :
    /\ heap = AllocStore(AllocModules(EmptyHeap, PayloadModules), m)
    /\ store = 1
    /\ actions = b
    /\ input0 = m
    /\ actions0 = [i \in 1..Len(b) |->
                     ActionValue(AllocModules(EmptyHeap, PayloadModules), b[i])]
    /\ outcomes = <<>>
    /\ rpc = "idle"
    /\ rstore = 0
    /\ rpos = NoPos
    /\ calls = <<>>
    /\ pending = {}
    /\ rerr = NoError

\* what the caller holds once mutateStore has returned or thrown
Outcome(r) ==
  [err |-> r.err, at |-> r.at, ret |-> r.ret, trace |-> r.trace,
   value |-> IF r.err = NoError THEN StoreValue(r.h, r.ret)
             ELSE [modules |-> <<>>, aliases |-> <<>>]]

Finished(r) ==
  /\ heap' = r.h
  /\ outcomes' = Append(outcomes, Outcome(r))

\* mutateStore(store, actions), with the manifest and batch of Init
MutateStore ==
  /\ rpc = "idle"
  /\ Len(outcomes) < MaxRuns
  /\ Finished(mutateStore(heap, store, actions))
  /\ UNCHANGED <<store, actions, input0, actions0, rpc, rstore, rpos, calls, pending, rerr>>

(***************************************************************************)
(* mutateRepository                                                        *)
(***************************************************************************)
vendorDirectoryPath == <<"v", "e", "n", "d", "o", "r">>

\* path.join of the std library for non-empty results without "." and ".."
\* segments: the non-empty parts joined with "/", repeated "/" collapsed
RECURSIVE collapse(_)
collapse(s) ==
  IF Len(s) < 2 THEN s
  ELSE IF s[1] = "/" /\ s[2] = "/" THEN collapse(Tail(s))
  ELSE <<s[1]>> \o collapse(Tail(s))

RECURSIVE joinParts(_)
joinParts(parts) ==
  IF parts = <<>> THEN <<>>
  ELSE IF Head(parts) = <<>> THEN joinParts(Tail(parts))
  ELSE IF joinParts(Tail(parts)) = <<>> THEN Head(parts)
  ELSE Head(parts) \o <<"/">> \o joinParts(Tail(parts))

pathJoin(parts) == collapse(joinParts(parts))

\* a collaborator call of action i; flag is its hasDefault argument
Call(i, fn, args, flag) ==
  [i |-> i, fn |-> fn, args |-> args, flag |-> flag, result |-> "pending"]

\* where the function stands after the call c was started and awaited
issue(i, k, stage, c, cs, pd) ==
  [rpc |-> "running", rpos |-> [i |-> i, k |-> k, stage |-> stage],
   calls |-> Append(cs, c), pending |-> pd \cup {Len(cs) + 1}, rerr |-> NoError]

RECURSIVE repoDispatch(_, _, _, _, _, _)
RECURSIVE repoUpdateLoop(_, _, _, _, _, _, _)

\* variant of repoThrow: the failure is swallowed and the batch goes on
repoThrow_swallowed(h, s, acts, pos, e, cs, pd) ==
  repoDispatch(h, s, acts, pos.i + 1, cs, pd)

\* an exception leaves the async function: the returned promise rejects
repoThrow(h, s, acts, pos, e, cs, pd) ==
  [rpc |-> "rejected", rpos |-> [pos EXCEPT !.stage = "thrown"],
   calls |-> cs, pending |-> pd, rerr |-> e]

\* variant of loopDone: the loop stops one file early
loopDone_early(files, k) == k >= Len(files)

\* for (const filePath of foundMod.files): the loop is over once k passes the end
loopDone(files, k) == k > Len(files)

\* variant of repoUpdateLoop: the files are those the module has in the store
\* mutateStore was given, not in the one it returned
repoUpdateLoop_input(h, s, acts, i, k, cs, pd) ==
  LET a == acts[i]
      list == h.lists[h.cfgs[1].modules]
      found == findExact(h, list, a.moduleProtocol, a.modulePath)
      files == IF found = 0 THEN <<>> ELSE h.files[h.mods[list[found]].files]
  IN IF loopDone(files, k) THEN repoDispatch(h, s, acts, i + 1, cs, pd)
     ELSE issue(i, k, "inspect",
                Call(i, "hasDefaultExportRemote",
                     <<createURL(a.moduleProtocol, a.modulePath, a.moduleVersion, files[k])>>,
                     "none"),
                cs, pd)

\* case UPDATE_MODULE, from the top of iteration k of the loop over foundMod.files
repoUpdateLoop(h, s, acts, i, k, cs, pd) ==
  LET a == acts[i]
      list == h.lists[h.cfgs[s].modules]
      foundMod == h.mods[list[findExact(h, list, a.moduleProtocol, a.modulePath)]]
      files == h.files[foundMod.files]
  IN IF loopDone(files, k) THEN repoDispatch(h, s, acts, i + 1, cs, pd)
     ELSE issue(i, k, "inspect",
                Call(i, "hasDefaultExportRemote",
                     <<createURL(a.moduleProtocol, a.modulePath, a.moduleVersion, files[k])>>,
                     "none"),
                cs, pd)

\* for (const action of actions), from the top of iteration i up to the first
\* await, the first throw or the end of the function
repoDispatch(h, s, acts, i, cs, pd) ==
  IF i > Len(acts)
  THEN [rpc |-> "resolved", rpos |-> [i |-> i, k |-> 0, stage |-> "returned"],
        calls |-> cs, pending |-> pd, rerr |-> NoError]
  ELSE
  LET a == acts[i]
      pos == [i |-> i, k |-> 0, stage |-> "dispatch"]
      list == h.lists[h.cfgs[s].modules]
      probe == IF a.type = ADD_ALIAS THEN a.aliasTargetPath ELSE a.link
      found == findOwner(h, list, probe)
      foundMod == h.mods[list[found]]
      filePath == filePathOf(probe, foundMod)
  IN CASE a.type = ADD_MODULE -> repoDispatch(h, s, acts, i + 1, cs, pd)
       [] a.type = REMOVE_MODULE ->
            issue(i, 0, "persist",
                  Call(i, "removeModule", <<a.moduleProtocol, a.modulePath>>, "none"), cs, pd)
       [] a.type = ADD_LINK ->
            IF found = 0
            THEN repoThrow(h, s, acts, pos, Error("add link: module not found", a.link), cs, pd)
            ELSE issue(i, 0, "inspect",
                       Call(i, "hasDefaultExportRemote",
                            <<createURL(foundMod.protocol, foundMod.path,
                                        foundMod.version, filePath)>>, "none"),
                       cs, pd)
       [] a.type = REMOVE_LINK ->
            IF found = 0
            THEN repoThrow(h, s, acts, pos, Error("remove link: module not found", a.link), cs, pd)
            ELSE issue(i, 0, "persist",
                       Call(i, "removeLink",
                            <<foundMod.protocol, foundMod.path, filePath>>, "none"),
                       cs, pd)
       [] a.type = ADD_ALIAS ->
            IF found = 0
            THEN repoThrow(h, s, acts, pos,
                           Error("add alias: module not found", a.aliasTargetPath), cs, pd)
            ELSE issue(i, 0, "inspect",
                       Call(i, "hasDefaultExportLocal",
                            <<pathJoin(<<vendorDirectoryPath, foundMod.protocol,
                                         foundMod.path, filePath>>)>>, "none"),
                       cs, pd)
       [] a.type = REMOVE_ALIAS ->
            issue(i, 0, "persist", Call(i, "removeAlias", <<a.aliasPath>>, "none"), cs, pd)
       [] a.type = UPDATE_MODULE ->
            IF findExact(h, list, a.moduleProtocol, a.modulePath) = 0
            THEN repoThrow(h, s, acts, pos,
                           Error("update module: module not found",
                                 urlStr(a.moduleProtocol, a.modulePath)), cs, pd)
            ELSE repoUpdateLoop(h, s, acts, i, 1, cs, pd)

\* the code between an export inspection and the persistence call that follows
repoAfterInspect(h, s, acts, pos, hasDefault, cs, pd) ==
  LET a == acts[pos.i]
      list == h.lists[h.cfgs[s].modules]
      probe == IF a.type = ADD_ALIAS THEN a.aliasTargetPath ELSE a.link
      foundMod == h.mods[list[findOwner(h, list, probe)]]
      filePath == filePathOf(probe, foundMod)
      updMod == h.mods[list[findExact(h, list, a.moduleProtocol, a.modulePath)]]
  IN CASE a.type = ADD_LINK ->
            issue(pos.i, 0, "persist",
                  Call(pos.i, "addLink",
                       <<foundMod.protocol, foundMod.path, foundMod.version, filePath>>,
                       hasDefault), cs, pd)
       [] a.type = ADD_ALIAS ->
            issue(pos.i, 0, "persist",
                  Call(pos.i, "addAlias",
                       <<foundMod.protocol, foundMod.path, filePath, a.aliasPath>>,
                       hasDefault), cs, pd)
       [] a.type = UPDATE_MODULE ->
            issue(pos.i, pos.k, "persist",
                  Call(pos.i, "updateLink",
                       <<a.moduleProtocol, a.modulePath, a.moduleVersion,
                         h.files[updMod.files][pos.k]>>,
                       hasDefault), cs, pd)

\* the code after a persistence call: the next file of UPDATE_MODULE, else break
repoAfterPersist(h, s, acts, pos, cs, pd) ==
  IF acts[pos.i].type = UPDATE_MODULE
  THEN repoUpdateLoop(h, s, acts, pos.i, pos.k + 1, cs, pd)
  ELSE repoDispatch(h, s, acts, pos.i + 1, cs, pd)

\* variant of tolerated: no failure of the local inspection is caught
tolerated_none(e) == FALSE

\* catch (e) { if (!(e instanceof Deno.errors.NotFound)) throw e }
tolerated(e) == e = "NotFound"

\* variant of settle: the function goes on while the call is still pending
settle_notAwaited(pd, c) == pd

\* await: the function resumes once the awaited call c has settled
settle(pd, c) == pd \ {c}

\* the awaited call: the one started last
awaited == Len(calls)

Resume(r, result) ==
  /\ rpc' = r.rpc
  /\ rpos' = r.rpos
  /\ calls' = [r.calls EXCEPT ![awaited].result = result]
  /\ pending' = r.pending
  /\ rerr' = r.rerr
  /\ UNCHANGED <<heap, store, actions, input0, actions0, outcomes, rstore>>

\* the function from its call to its first await, first throw or return
Started(s, r) ==
  /\ rstore' = s
  /\ rpc' = r.rpc
  /\ rpos' = r.rpos
  /\ calls' = r.calls
  /\ pending' = r.pending
  /\ rerr' = r.rerr

\* await mutateRepository(repository, store, actions): the caller passes the
\* Store its one mutateStore call returned
MutateRepository ==
  /\ rpc = "idle"
  /\ Len(outcomes) = 1
  /\ outcomes[1].err = NoError
  /\ Started(outcomes[1].ret,
             repoDispatch(heap, outcomes[1].ret, actions, 1, calls, pending))
  /\ UNCHANGED <<heap, store, actions, input0, actions0, outcomes>>

Awaiting(stage, fn) ==
  /\ rpc = "running"
  /\ rpos.stage = stage
  /\ awaited \in pending
  /\ calls[awaited].fn = fn

\* hasDefaultExportRemote resolves with a flag
RemoteInspectionReturns ==
  \E flag \in {"true", "false"} :
    /\ Awaiting("inspect", "hasDefaultExportRemote")
    /\ Resume(repoAfterInspect(heap, rstore, actions, rpos, flag,
                               calls, settle(pending, awaited)), flag)

\* hasDefaultExportRemote rejects
RemoteInspectionFails ==
  /\ Awaiting("inspect", "hasDefaultExportRemote")
  /\ Resume(repoThrow(heap, rstore, actions, rpos,
                      Error("ExportInspectionFailed", <<"hasDefaultExportRemote">>),
                      calls, settle(pending, awaited)), "ExportInspectionFailed")

\* hasDefaultExportLocal resolves with a flag
LocalInspectionReturns ==
  \E flag \in {"true", "false"} :
    /\ Awaiting("inspect", "hasDefaultExportLocal")
    /\ Resume(repoAfterInspect(heap, rstore, actions, rpos, flag,
                               calls, settle(pending, awaited)), flag)

\* hasDefaultExportLocal rejects, with Deno.errors.NotFound or with another error
LocalInspectionFails ==
  \E e \in {"NotFound", "ExportInspectionFailed"} :
    /\ Awaiting("inspect", "hasDefaultExportLocal")
    /\ Resume(IF tolerated(e)
              THEN repoAfterInspect(heap, rstore, actions, rpos, "false",
                                    calls, settle(pending, awaited))
              ELSE repoThrow(heap, rstore, actions, rpos,
                             Error(e, <<"hasDefaultExportLocal">>),
                             calls, settle(pending, awaited)), e)

\* a repository call resolves
PersistenceReturns ==
  /\ rpc = "running"
  /\ rpos.stage = "persist"
  /\ awaited \in pending
  /\ Resume(repoAfterPersist(heap, rstore, actions, rpos,
                             calls, settle(pending, awaited)), "ok")

\* a repository call rejects
PersistenceFails ==
  /\ rpc = "running"
  /\ rpos.stage = "persist"
  /\ awaited \in pending
  /\ Resume(repoThrow(heap, rstore, actions, rpos,
                      Error("PersistenceFailed", <<calls[awaited].fn>>),
                      calls, settle(pending, awaited)), "PersistenceFailed")

Next ==
  \/ MutateStore
  \/ MutateRepository
  \/ RemoteInspectionReturns
  \/ RemoteInspectionFails
  \/ LocalInspectionReturns
  \/ LocalInspectionFails
  \/ PersistenceReturns
  \/ PersistenceFails

Spec == Init /\ [][Next]_vars

(***************************************************************************)
(* Properties                                                              *)
(***************************************************************************)
Ran == outcomes # <<>>
Last == outcomes[Len(outcomes)]
Succeeded(n) == outcomes[n].err = NoError

\* the objects reachable from a Store
ModRefs(h, s) == {h.lists[h.cfgs[s].modules][i] : i \in 1..Len(h.lists[h.cfgs[s].modules])}
FileRefs(h, s) == {h.mods[m].files : m \in ModRefs(h, s)}

Identities(ms) == [i \in 1..Len(ms) |-> toString(ms[i])]

\* C1: mutateStore leaves the input manifest as it was before the call (module
\* list, versions, file lists, alias map), whether it returns or throws, and
\* the manifest it returns shares no Module, file array, module array or alias
\* object with the input.
C1_InputUntouched ==
  \A n \in 1..Len(outcomes) :
    /\ StoreValue(heap, store) = input0
    /\ Succeeded(n) =>
         LET r == outcomes[n].ret
         IN /\ r # store
            /\ heap.cfgs[r].modules # heap.cfgs[store].modules
            /\ heap.cfgs[r].aliases # heap.cfgs[store].aliases
            /\ ModRefs(heap, r) \cap ModRefs(heap, store) = {}
            /\ FileRefs(heap, r) \cap FileRefs(heap, store) = {}

\* C1 witness: a call returned a manifest that differs from the input
C1_Witness == Ran /\ Succeeded(Len(outcomes)) /\ Last.value # input0

\* C2: after mutateStore the payload of every action is what it was before the
\* call, and two calls with the same manifest and batch have the same outcome.
C2_ActionsReadOnly ==
  /\ \A i \in 1..Len(actions) : ActionValue(heap, actions[i]) = actions0[i]
  /\ Len(outcomes) >= 2 =>
       /\ outcomes[1].err = outcomes[2].err
       /\ outcomes[1].value = outcomes[2].value

\* C3: the batch [AddModule(m), RemoveModule(m.protocol, m.path)], m not in the
\* manifest, succeeds and returns the identities of the input's module list.
C3_AddThenRemove ==
  ( /\ Ran
    /\ Len(actions) = 2
    /\ actions[1].type = ADD_MODULE
    /\ actions[2] = RemoveModule(actions0[1].module.protocol, actions0[1].module.path)
    /\ \A j \in 1..Len(input0.modules) :
         ~moduleEquals(input0.modules[j], actions0[1].module) )
  => /\ Succeeded(1)
     /\ Identities(outcomes[1].value.modules) = Identities(input0.modules)

Canonical(m) ==
  /\ \A i, j \in 1..Len(m.modules) :
       i < j => /\ compareModules(m.modules[i], m.modules[j])
                /\ ~moduleEquals(m.modules[i], m.modules[j])
  /\ \A i \in 1..Len(m.modules) :
       \A j, k \in 1..Len(m.modules[i].files) :
         j < k => ~StrLess(m.modules[i].files[k], m.modules[i].files[j])
  /\ \A i, j \in 1..Len(m.aliases) :
       i < j => StrLess(m.aliases[i][1], m.aliases[j][1])

\* C4: every manifest mutateStore returns has its modules sorted by
\* compareModules with no identity twice, every file list sorted and the alias
\* entries ordered by key.
C4_Canonical == \A n \in 1..Len(outcomes) : Succeeded(n) => Canonical(outcomes[n].value)

\* C4 witness: p://a was added to a manifest holding p://a/b, so the working
\* list was out of order before the post-pass
C4_Witness ==
  /\ Ran
  /\ Succeeded(Len(outcomes))
  /\ Identities(input0.modules) = <<toString(Mod(PathAB, <<>>))>>
  /\ Identities(Last.value.modules) =
       <<toString(Mod(PathA, <<>>)), toString(Mod(PathAB, <<>>))>>

\* C5: every alias target of a manifest mutateStore returns has an owning
\* module in that manifest's module list.
C5_AliasesOwned ==
  \A n \in 1..Len(outcomes) :
    Succeeded(n) =>
      \A i \in 1..Len(outcomes[n].value.aliases) :
        \E j \in 1..Len(outcomes[n].value.modules) :
          startsWith(outcomes[n].value.aliases[i][2], toString(outcomes[n].value.modules[j]))

\* C6: mutateRepository, called with the manifest mutateStore returned for the
\* same batch, never fails with a module-not-found error.
C6_SynchronizerFindsModules ==
  rpc = "rejected" =>
    rerr.kind \notin {"add link: module not found", "remove link: module not found",
                      "add alias: module not found", "update module: module not found"}

\* C7: at most one collaborator call is pending at any moment, every call has
\* settled before the next one is started, and the calls are started in the
\* order of the batch.
C7_OneCallAtATime ==
  /\ Cardinality(pending) <= 1
  /\ pending \subseteq {Len(calls)}
  /\ \A c, d \in 1..Len(calls) : c < d => calls[c].i <= calls[d].i

\* C7 witness: the batch ran to its end with calls for two different actions
C7_Witness ==
  /\ rpc = "resolved"
  /\ \E c, d \in 1..Len(calls) : calls[c].i < calls[d].i

Failed(c) == calls[c].result \in {"ExportInspectionFailed", "PersistenceFailed"}

\* C8: a collaborator call that fails (the tolerated NotFound of the local
\* inspection apart) is the last call ever started, and mutateRepository has
\* rejected with that failure at the action that made the call.
C8_AbortOnFailure ==
  \A c \in 1..Len(calls) :
    Failed(c) =>
      /\ c = Len(calls)
      /\ pending = {}
      /\ rpc = "rejected"
      /\ rerr = Error(calls[c].result, <<calls[c].fn>>)
      /\ rpos.i = calls[c].i

\* C8 witness: a call failed after a persistence call of an earlier action of
\* the batch had completed
C8_Witness ==
  /\ calls # <<>>
  /\ Failed(Len(calls))
  /\ \E c \in 1..Len(calls) :
       /\ calls[c].i < calls[Len(calls)].i
       /\ calls[c].result = "ok"

AddAliasCalls(i) == {c \in 1..Len(calls) : calls[c].i = i /\ calls[c].fn = "addAlias"}

\* C9: when the local inspection of an AddAlias action fails with NotFound,
\* addAlias is called next, once, with flag false, and once it has completed
\* the batch is past that action; when the inspection fails otherwise,
\* mutateRepository rejects with that failure and addAlias is not called.
C9_LocalNotFoundTolerated ==
  \A c \in 1..Len(calls) :
    calls[c].fn = "hasDefaultExportLocal" =>
      /\ calls[c].result = "NotFound" =>
           /\ c < Len(calls)
           /\ AddAliasCalls(calls[c].i) = {c + 1}
           /\ calls[c + 1].flag = "false"
           /\ calls[c + 1].args[4] = actions[calls[c].i].aliasPath
           /\ calls[c + 1].result = "ok" => rpos.i > calls[c].i
           /\ rpc = "rejected" => rerr.kind # "NotFound"
      /\ calls[c].result = "ExportInspectionFailed" =>
           /\ rpc = "rejected"
           /\ rerr = Error("ExportInspectionFailed", <<"hasDefaultExportLocal">>)
           /\ AddAliasCalls(calls[c].i) = {}

\* C9 witness: NotFound at the first action, addAlias done, and a call of the
\* next action started
C9_Witness ==
  \E c \in 1..Len(calls) :
    /\ calls[c].fn = "hasDefaultExportLocal"
    /\ calls[c].result = "NotFound"
    /\ c + 2 <= Len(calls)
    /\ calls[c + 2].i > calls[c].i

CallsOf(i) == SelectSeq(calls, LAMBDA c : c.i = i)

\* the file list, in the manifest handed to mutateRepository, of the module
\* with exactly the protocol and path of the UPDATE_MODULE action a
UpdatedFiles(a) ==
  LET ms == StoreValue(heap, rstore).modules
  IN ms[FirstIndex(ms, LAMBDA m : m.protocol = a.moduleProtocol /\ m.path = a.modulePath)].files

\* C10: an UpdateModule action that completed made, for the n files of its
\* module in file-list order, one remote inspection of the new version's URL
\* followed by one updateLink with the new version and the flag the inspection
\* returned, and no other call.
C10_UpdateModuleCalls ==
  \A i \in 1..Len(actions) :
    (rpc # "idle" /\ actions[i].type = UPDATE_MODULE /\ rpos.i > i) =>
      LET a == actions[i]
          files == UpdatedFiles(a)
          cs == CallsOf(i)
      IN /\ Len(cs) = 2 * Len(files)
         /\ \A k \in 1..Len(files) :
              /\ cs[2 * k - 1].fn = "hasDefaultExportRemote"
              /\ cs[2 * k - 1].args =
                   <<createURL(a.moduleProtocol, a.modulePath, a.moduleVersion, files[k])>>
              /\ cs[2 * k].fn = "updateLink"
              /\ cs[2 * k].args =
                   <<a.moduleProtocol, a.modulePath, a.moduleVersion, files[k]>>
              /\ cs[2 * k].flag = cs[2 * k - 1].result

\* C10 witness: an UpdateModule action of a module with two files completed,
\* the two inspections returning different flags
C10_Witness ==
  \E i \in 1..Len(actions) :
    /\ rpc # "idle"
    /\ actions[i].type = UPDATE_MODULE
    /\ rpos.i > i
    /\ Len(CallsOf(i)) = 4
    /\ CallsOf(i)[2].flag # CallsOf(i)[4].flag

(***************************************************************************)
(* Replaying a batch on the input manifest                                 *)
(***************************************************************************)
\* the heap the first call of mutateStore starts from
InitialHeap == AllocStore(AllocModules(EmptyHeap, PayloadModules), input0)

\* what mutateStore returns or throws for the batch acts on the input manifest
Replay(acts) == Outcome(mutateStore(InitialHeap, 1, acts))

\* the first call of mutateStore has just returned or thrown; what it
\* returned stays in outcomes[1] from here on
JustRan == Len(outcomes) = 1 /\ rpc = "idle"

\* the first n actions of the batch
Prefix(n) == SubSeq(actions, 1, n)

NoDuplicates(s) == \A i, j \in 1..Len(s) : s[i] = s[j] => i = j

\* the batch is [AddLink(link), AddLink(link)] and the link has an owner
TwiceAddLink ==
  /\ JustRan
  /\ Len(actions) = 2
  /\ actions[1].type = ADD_LINK
  /\ actions[2] = actions[1]
  /\ outcomes[1].trace[1].own # 0

\* C11: AddLink is idempotent in mutateStore: for a link with an owning
\* module the batch [AddLink(link), AddLink(link)] returns the same manifest
\* as [AddLink(link)], and no file list of it holds a file path twice.
C11_AddLinkIdempotent ==
  TwiceAddLink =>
    /\ Succeeded(1)
    /\ Replay(<<actions[1]>>).err = NoError
    /\ outcomes[1].value = Replay(<<actions[1]>>).value
    /\ \A m \in 1..Len(outcomes[1].value.modules) :
         NoDuplicates(outcomes[1].value.modules[m].files)

\* the first AddLink linked a file that was not linked, the second found it
C11_Witness ==
  /\ TwiceAddLink
  /\ Succeeded(1)
  /\ outcomes[1].value # input0
  /\ outcomes[1].trace[2].fp = outcomes[1].trace[1].fp
  /\ outcomes[1].trace[2].own = outcomes[1].trace[1].own

(***************************************************************************)
(* Owner resolution                                                        *)
(***************************************************************************)
\* the steps mutateStore took in its n-th call
Steps(n) == outcomes[n].trace

\* mutateRepository has not been started: outcomes changes in MutateStore
\* only, which needs and leaves rpc idle, so what holds of outcomes in these
\* states holds in all
StoreSide == rpc = "idle"

\* the string an action looks its owning module up with
Probe(a) ==
  IF a.type = REMOVE_MODULE THEN urlStr(a.moduleProtocol, a.modulePath)
  ELSE IF a.type = ADD_ALIAS THEN a.aliasTargetPath
  ELSE a.link

\* step i of call n looked up an owning module by prefix
Resolved(n, i) ==
  \/ actions[i].type \in {ADD_LINK, REMOVE_LINK, REMOVE_MODULE}
  \/ /\ actions[i].type = ADD_ALIAS
     /\ Steps(n)[i].err # Error("alias already exists", actions[i].aliasPath)

\* the positions of the modules whose identity is a prefix of the probe
Matches(before, probe) ==
  {j \in 1..Len(before) : startsWith(probe, toString(before[j]))}

\* C12: owner resolution of AddLink, RemoveLink, AddAlias and RemoveModule
\* in mutateStore picks the first module, in the order of the module list
\* at the moment the action is applied, whose identity is a prefix of the
\* probe: with p://a listed before p://a/b a link p://a/b/f resolves to
\* p://a, never to the longer match.
C12_FirstPrefixMatch ==
  StoreSide => \A n \in 1..Len(outcomes) : \A i \in 1..Len(Steps(n)) :
    Resolved(n, i) =>
      IF Matches(Steps(n)[i].before, Probe(actions[i])) = {}
      THEN Steps(n)[i].own = 0
      ELSE /\ Steps(n)[i].own \in Matches(Steps(n)[i].before, Probe(actions[i]))
           /\ \A j \in Matches(Steps(n)[i].before, Probe(actions[i])) :
                Steps(n)[i].own <= j

\* two identities are prefixes of the probe, the shorter is listed first and
\* is the one resolved to
C12_Witness ==
  \E n \in 1..Len(outcomes) : \E i \in 1..Len(Steps(n)) :
    /\ Resolved(n, i)
    /\ Matches(Steps(n)[i].before, Probe(actions[i])) = {1, 2}
    /\ Steps(n)[i].before[1].path = PathA
    /\ Steps(n)[i].before[2].path = PathAB
    /\ Steps(n)[i].own = 1

(***************************************************************************)
(* RemoveLink of a file that is not linked                                 *)
(***************************************************************************)
\* step i of call n is a RemoveLink whose link has an owning module that
\* does not list the derived file path at that moment
NotLinked(n, i) ==
  /\ actions[i].type = REMOVE_LINK
  /\ Steps(n)[i].own # 0
  /\ \A k \in 1..Len(Steps(n)[i].before[Steps(n)[i].own].files) :
       Steps(n)[i].before[Steps(n)[i].own].files[k] # Steps(n)[i].fp

\* C13: a RemoveLink whose link has an owning module but whose derived file
\* path is not in that module's file list at that moment, also because an
\* earlier action of the same batch removed it, fails the whole call with
\* the link-not-found error and no manifest is returned.
C13_RemoveLinkNotLinked ==
  StoreSide => \A n \in 1..Len(outcomes) : \A i \in 1..Len(Steps(n)) :
    NotLinked(n, i) =>
      /\ outcomes[n].err = Error("file not linked", actions[i].link)
      /\ outcomes[n].at = i
      /\ outcomes[n].ret = 0
      /\ Len(Steps(n)) = i

\* the second RemoveLink of a batch finds the file removed by the first
C13_Witness ==
  /\ Ran
  /\ Len(actions) = 2
  /\ actions[1].type = REMOVE_LINK
  /\ actions[2] = actions[1]
  /\ Steps(1)[1].err = NoError
  /\ NotLinked(1, 2)
  /\ outcomes[1].err.kind = "file not linked"

(***************************************************************************)
(* AddAlias on an existing alias path                                      *)
(***************************************************************************)
\* the alias path is a key of the alias map
HasKey(map, key) == \E k \in 1..Len(map) : map[k][1] = key

\* C14: an AddAlias fails with alias-exists whenever its alias path is a key
\* of the alias map at the moment it is applied, whether or not its target
\* has an owning module, and does not fail with alias-exists when the alias
\* path is not a key.
C14_AliasExistsIffKey ==
  \A n \in 1..Len(outcomes) : \A i \in 1..Len(Steps(n)) :
    actions[i].type = ADD_ALIAS =>
      (Steps(n)[i].err = Error("alias already exists", actions[i].aliasPath)
         <=> HasKey(Steps(n)[i].aliases, actions[i].aliasPath))

(***************************************************************************)
(* mutateStore and mutateRepository on the same batch                      *)
(***************************************************************************)
\* the module step i of the first call of mutateStore resolved to
Owner(i) == Steps(1)[i].before[Steps(1)[i].own]

\* C15: for a batch on which mutateStore succeeds, every RemoveModule makes
\* mutateRepository remove the vendor files of the module mutateStore
\* removed: the protocol and path passed to repository.removeModule are
\* those of the module deleted from the module list.
C15_SameModuleRemoved ==
  \A c \in 1..Len(calls) :
    calls[c].fn = "removeModule" =>
      calls[c].args = <<Owner(calls[c].i).protocol, Owner(calls[c].i).path>>

\* the module and file path a call of the repository names
Target(c) ==
  IF c.fn = "addLink" THEN <<c.args[1], c.args[2], c.args[4]>>
  ELSE <<c.args[1], c.args[2], c.args[3]>>

\* the module and file path mutateStore resolved action i to
StoreTarget(i) ==
  <<Owner(i).protocol, Owner(i).path,
    IF actions[i].type = ADD_ALIAS
    THEN filePathOf(actions[i].aliasTargetPath, Owner(i))
    ELSE Steps(1)[i].fp>>

\* C16: for a batch on which mutateStore succeeds, every AddLink, RemoveLink
\* and AddAlias resolves in mutateRepository, against the sorted manifest
\* mutateStore returned, to the owning module and derived file path it
\* resolved to in mutateStore, against the working list at that moment.
C16_SameOwnerInBoth ==
  /\ rerr.kind \notin {"add link: module not found", "remove link: module not found",
                       "add alias: module not found"}
  /\ \A c \in 1..Len(calls) :
       calls[c].fn \in {"addLink", "removeLink", "addAlias"} =>
         Target(calls[c]) = StoreTarget(calls[c].i)

(***************************************************************************)
(* The derived file path                                                   *)
(***************************************************************************)
\* C17: the file path derived for a link is the remainder of the link after
\* its owning module's identity prefix: identity followed by file path is
\* the link, also when the identity occurs a second time inside the link
\* and when the link equals the identity.
C17_FilePathIsRemainder ==
  \A n \in 1..Len(outcomes) : \A i \in 1..Len(Steps(n)) :
    (actions[i].type \in {ADD_LINK, REMOVE_LINK} /\ Steps(n)[i].own # 0) =>
      toString(Steps(n)[i].before[Steps(n)[i].own]) \o Steps(n)[i].fp = actions[i].link

(***************************************************************************)
(* The first invalid action                                                *)
(***************************************************************************)
\* C18: mutateStore stops at the first invalid action: the error thrown is
\* the one of the earliest action of the batch that is invalid for the state
\* the actions before it produced, no action after it is applied and no
\* manifest is returned.
C18_StopsAtFirstInvalid ==
  /\ StoreSide => \A n \in 1..Len(outcomes) : \A i \in 1..Len(Steps(n)) :
       Steps(n)[i].err # NoError =>
         /\ outcomes[n].err = Steps(n)[i].err
         /\ outcomes[n].at = i
         /\ outcomes[n].ret = 0
         /\ Len(Steps(n)) = i
  /\ (JustRan /\ ~Succeeded(1)) =>
       /\ outcomes[1].at \in 1..Len(actions)
       /\ Replay(Prefix(outcomes[1].at - 1)).err = NoError
       /\ Replay(Prefix(outcomes[1].at)).err = outcomes[1].err
       /\ heap = mutateStore(InitialHeap, 1, Prefix(outcomes[1].at)).h

\* the first action of a batch of two throws, the second never runs although
\* it is valid for the input manifest
C18_Witness ==
  /\ JustRan
  /\ Len(actions) = 2
  /\ outcomes[1].at = 1
  /\ Len(Steps(1)) = 1
  /\ Replay(<<actions[2]>>).err = NoError
  /\ Replay(<<actions[2]>>).value # input0

(***************************************************************************)
(* What RemoveModule leaves                                                *)
(***************************************************************************)
\* step i of call n is a RemoveModule that succeeded
Removed(n, i) == actions[i].type = REMOVE_MODULE /\ Steps(n)[i].err = NoError

\* the batch ends with a RemoveModule and the first call succeeded
EndsWithRemove ==
  /\ JustRan
  /\ Succeeded(1)
  /\ actions # <<>>
  /\ actions[Len(actions)].type = REMOVE_MODULE

\* the manifest returned for the batch without its last action
BeforeLast == Replay(Prefix(Len(actions) - 1)).value

\* C19: a successful RemoveModule removes exactly one module, with its file
\* list, from the module list and leaves the alias map unchanged, so aliases
\* whose target lies under the removed module stay in the manifest; every
\* other module keeps its version and files.
C19_RemoveModuleFrame ==
  /\ StoreSide => \A n \in 1..Len(outcomes) : \A i \in 1..Len(Steps(n)) :
       Removed(n, i) =>
         /\ Steps(n)[i].own \in 1..Len(Steps(n)[i].before)
         /\ Steps(n)[i].after = RemoveAt(Steps(n)[i].before, Steps(n)[i].own)
         /\ Steps(n)[i].aliasesAfter = Steps(n)[i].aliases
  /\ EndsWithRemove =>
       /\ outcomes[1].value.aliases = BeforeLast.aliases
       /\ \E j \in 1..Len(BeforeLast.modules) :
            outcomes[1].value.modules = RemoveAt(BeforeLast.modules, j)

\* the module removed is the only one an alias target lies under, and the
\* alias is in the manifest returned, beside another module
C19_Witness ==
  /\ EndsWithRemove
  /\ outcomes[1].value.modules # <<>>
  /\ \E k \in 1..Len(outcomes[1].value.aliases) :
       Matches(outcomes[1].value.modules, outcomes[1].value.aliases[k][2]) = {}

(***************************************************************************)
(* The files UpdateModule rewrites                                         *)
(***************************************************************************)
\* the files action i of mutateRepository has issued updateLink for
UpdateLinkFiles(i) ==
  {calls[c].args[4] : c \in {d \in 1..Len(calls) : calls[d].i = i /\ calls[d].fn = "updateLink"}}

\* the files, in manifest m, of the module with exactly the protocol and
\* path of action a; none if m has no such module
FilesIn(m, a) ==
  UNION {{m.modules[j].files[k] : k \in 1..Len(m.modules[j].files)} :
           j \in {x \in 1..Len(m.modules) : /\ m.modules[x].protocol = a.moduleProtocol
                                             /\ m.modules[x].path = a.modulePath}}

\* action i is an UpdateModule that mutateRepository has gone past
Updated(i) == rpc # "idle" /\ actions[i].type = UPDATE_MODULE /\ rpos.i > i

\* C20: in mutateRepository an UpdateModule at position i of the batch
\* issues updateLink for exactly the files its module has after the actions
\* up to and including i were applied to the original manifest, never for a
\* file whose AddLink comes later in the batch.
C20_FilesAtThatPoint ==
  \A i \in 1..Len(actions) :
    Updated(i) => UpdateLinkFiles(i) = FilesIn(Replay(Prefix(i)).value, actions[i])

\* C20 amended: an UpdateModule issues updateLink only for files its module
\* has in the manifest mutateRepository was given, the one mutateStore
\* returned for the whole batch, and once it has completed for exactly those
\* files, whatever the position of the action in the batch.
C20_FilesOfReturnedManifest ==
  \A i \in 1..Len(actions) :
    (rpc # "idle" /\ actions[i].type = UPDATE_MODULE) =>
      /\ UpdateLinkFiles(i) \subseteq FilesIn(StoreValue(heap, rstore), actions[i])
      /\ rpos.i > i => UpdateLinkFiles(i) = FilesIn(StoreValue(heap, rstore), actions[i])

\* an UpdateModule completed after an updateLink for a file that an AddLink
\* later in the batch links
C20_Witness ==
  \E i \in 1..Len(actions) :
    /\ Updated(i)
    /\ \E f \in UpdateLinkFiles(i) : f \notin FilesIn(Replay(Prefix(i)).value, actions[i])
    /\ \E j \in (i + 1)..Len(actions) : actions[j].type = ADD_LINK

====
